---- MODULE Spec2Model ----
(***************************************************************************)
(* Model of the task scheduler core: TaskSchedulerService                  *)
(* (app/services/scheduler.py), the result contract of TaskExecutor.execute *)
(* (app/services/executor.py), the Task and TaskLog rows                    *)
(* (app/models/__init__.py) and the startup registration (app/main.py).     *)
(*                                                                         *)
(* The service runs on one asyncio event loop: the code between two real   *)
(* suspension points is one atomic step.  The only suspension point of a   *)
(* run is the await of the executor, and only for the task types whose     *)
(* strategy awaits a subprocess; the HTTP strategy calls the blocking      *)
(* requests library, so an HTTP run is one step from start to end.         *)
(* Every db.commit() and the db.query() may fail: a failed commit rolls    *)
(* the pending changes back and raises.                                    *)
(***************************************************************************)
EXTENDS Integers, Sequences, FiniteSets, TLC

\* Bounds of the model.
NumTasks == 2
MaxRuns == 2
MaxFaulty == 1

\* add_job(..., max_instances=1, ...)
max_instances == 1

TaskIds == 1..NumTasks

\* Time is counted in instants of the schedule, relative to the scheduler's
\* clock: every cron expression the model registers is "* * * * *", which is
\* due at every instant.  A stored instant is None, an instant the scheduler
\* has processed, or the next one.
NoInstant == "None"
PassedInstant == "passed"
NextInstant == "next"

\* class TaskType(str, Enum)
TaskType == {"http", "shell", "python", "backup"}

\* The task types of the rows the model starts from: rows whose strategy
\* awaits a subprocess (shell, backup) alternate with rows whose strategy
\* blocks the loop (http).
StoredTaskTypes(task_id) == IF task_id % 2 = 1 THEN {"shell", "backup"} ELSE {"http"}

\* <<notify_on_success, notify_on_failure>> of the rows the model starts from:
\* the column defaults alternate with their opposite.
StoredNotifySettings(task_id) ==
    IF task_id % 2 = 1 THEN <<FALSE, TRUE>> ELSE <<TRUE, FALSE>>

\* Whether TaskExecutor.execute suspends the calling coroutine: the shell,
\* python and (compressing) backup strategies await a subprocess, the HTTP
\* strategy calls requests.get/post/put/delete and never yields.
Suspends(task_type) == task_type \in {"shell", "python", "backup"}

\* Whether the strategy bounds its wait: the shell and python strategies wrap
\* process.communicate() in asyncio.wait_for(..., timeout), requests takes a
\* timeout; the backup strategy awaits tar's process.communicate() bare.
HasTimeout(task_type) == task_type \in {"http", "shell", "python"}

\* Cron expressions as the list of their whitespace-separated fields.
CronExprs == { <<"*", "*", "*", "*", "*">>,
               <<"*", "*", "*", "*">>,
               <<"x", "*", "*", "*", "*">> }

DefaultCron == <<"*", "*", "*", "*", "*">>

\* The fields CronTrigger accepts, among those the model uses.
CronFieldOk(field) == field \in {"*"}

\* trigger_type of run_task_now: its default, and the value an API caller passes.
ManualTriggerTypes == {"manual"}

VARIABLES
    tasks,          \* the tasks table: TaskIds -> row (exists = FALSE: no row)
    logs,           \* the task_logs table: a set of rows
    log_seq,        \* the last TaskLog id the store gave out
    running_tasks,  \* TaskSchedulerService._running_tasks
    jobs,           \* the task ids with a job "task_<id>" in the APScheduler
    runs,           \* the coroutines of _run_task / run_task_now in flight
    notified,       \* the TaskLog ids _send_notification was invoked for
    executions,     \* per task, how many times executor.execute returned a result
    faulty,         \* how many handler steps met a failing store or log-file operation
    phase,          \* "startup" until lifespan has registered the stored tasks
    call            \* one call of TaskExecutor.execute, followed step by step

vars == <<tasks, logs, log_seq, running_tasks, jobs, runs,
          notified, executions, faulty, phase, call>>

\* class Task(Base): the columns the scheduler reads or writes.
TaskRow(task_type, on_success, on_failure) ==
    [ exists |-> TRUE,
      task_type |-> task_type,
      cron_expression |-> DefaultCron,
      is_active |-> TRUE,
      is_running |-> FALSE,
      last_run_at |-> 0,
      next_run_at |-> NoInstant,
      notify_on_success |-> on_success,
      notify_on_failure |-> on_failure,
      run_count |-> 0,
      success_count |-> 0,
      failure_count |-> 0 ]

\* class TaskLog(Base): the columns the scheduler writes.
TaskLogRow(id, task_id, trigger_type) ==
    [ id |-> id, task_id |-> task_id, status |-> "running",
      trigger_type |-> trigger_type ]

\* The scheduler's view of the program state, as the handlers read and write it.
\* out: how the handler ended; log: the id of the TaskLog it created (0: none);
\* set_next_run_at: add_task assigned next_run_at on the Task object it was given;
\* hit: a store operation of the handler failed.
St == [ tasks |-> tasks, logs |-> logs, log_seq |-> log_seq,
        running |-> running_tasks, notified |-> notified, jobs |-> jobs,
        out |-> "", log |-> 0, set_next_run_at |-> FALSE, hit |-> FALSE ]

\* The store operations of one handler, in program order: query (db.query),
\* c1 (the commit of is_running / last_run_at / run_count), c2 (the commit of
\* the new TaskLog), c3 (the commit of the result).  A fault names the first of
\* them that fails ("none": all succeed; what follows a failure is not
\* executed), and cx: whether the commit of _run_task's except handler succeeds.
Fault(at, cx) == [ at |-> at, cx |-> cx ]

NoFault == Fault("none", TRUE)

\* The handler reached the store operation that fails.
Hit(s) == [s EXCEPT !.hit = TRUE]

\* The faults that can show between the start of _run_task and its await, and
\* between the return of the executor and its end; the same for run_task_now,
\* which has no except handler.
RunTaskBeginFaults ==
    {NoFault} \cup { Fault(at, cx) : at \in {"query", "c1", "c2"}, cx \in BOOLEAN }
RunTaskEndFaults == { Fault(at, cx) : at \in {"none", "c3"}, cx \in BOOLEAN }
RunTaskNowBeginFaults == { Fault(at, TRUE) : at \in {"none", "query", "c1", "c2"} }
RunTaskNowEndFaults == { Fault(at, TRUE) : at \in {"none", "c3"} }

----------------------------------------------------------------------------
\* TaskExecutor.execute

\* What the dispatched strategy did: returned a success result, returned a
\* failed result (HTTP status >= 400, nonzero exit, timeout, missing source),
\* or raised.
Payloads == {"success", "failed", "error"}

\* execute(): the status of the result it returns, or "raise" when it raises.
\* log1 / log2: whether the first / second call of _log_execution succeeds.
\* A strategy result is logged in the try block; an exception there (from the
\* strategy or from _log_execution) builds a failed result and logs it again,
\* outside any handler.
execute(payload, log1, log2) ==
    IF payload # "error" /\ log1 THEN payload
    ELSE IF payload # "error" THEN (IF log2 THEN "failed" ELSE "raise")
    ELSE (IF log1 THEN "failed" ELSE "raise")

ExecuteResults == { execute(p, a, b) : p \in Payloads, a \in BOOLEAN, b \in BOOLEAN }

----------------------------------------------------------------------------
\* TaskSchedulerService

\* job.next_run_time: a registered job is due at the first instant of its
\* schedule after the last one the scheduler processed.
job_next_run_time(s, task_id) == NextInstant

\* datetime.utcnow() as a run of task_id reads it: later than what any earlier
\* run of the task read (the ordinal of the run; 0 is None).
utcnow(s, task_id) == s.tasks[task_id].run_count + 1

\* An update that writes the status to every TaskLog row.
SetLogStatusOfAll(ls, id, status) ==
    { [l EXCEPT !.status = status] : l \in ls }

\* "log.status = result['status']" on the TaskLog row the run created.
SetLogStatus(ls, id, status) ==
    { IF l.id = id THEN [l EXCEPT !.status = status] ELSE l : l \in ls }

\* "finally: self._running_tasks.discard(task_id)"
Finally(s, task_id) == [s EXCEPT !.running = @ \ {task_id}]

\* The guard of _run_task left out: every firing proceeds.
InRunningSetNever(s, task_id) == FALSE

\* _run_task: "if task_id in self._running_tasks"
InRunningSet(s, task_id) == task_id \in s.running

\* The guard of _run_task moved inside the try block: the skipped firing runs
\* the finally clause.
SkipInsideTry(s, task_id) == Finally([s EXCEPT !.out = "skipped"], task_id)

\* _run_task: "logger.warning(... is already running, skipping); return",
\* before the try block.
Skip(s, task_id) == [s EXCEPT !.out = "skipped"]

\* The guard of run_task_now left out: every manual trigger proceeds.
AlreadyRunningNever(s, task_id) == FALSE

\* run_task_now: "if task_id in self._running_tasks"
AlreadyRunning(s, task_id) == task_id \in s.running

\* The start of a run recorded without "task.run_count += 1".
MarkStartedUncounted(s, task_id) ==
    [s EXCEPT !.tasks[task_id].is_running = TRUE,
              !.tasks[task_id].last_run_at = utcnow(s, task_id)]

\* "task.is_running = True; task.last_run_at = datetime.utcnow();
\* task.run_count += 1", the same lines in _run_task and run_task_now.
MarkStarted(s, task_id) ==
    [s EXCEPT !.tasks[task_id].is_running = TRUE,
              !.tasks[task_id].last_run_at = utcnow(s, task_id),
              !.tasks[task_id].run_count = @ + 1]

\* The "else" of the statistics update left out: a success counts as a failure too.
RecordResultNoElse(s, task_id, log_id, result) ==
    [s EXCEPT !.logs = SetLogStatus(@, log_id, result),
              !.tasks[task_id].success_count = IF result = "success" THEN @ + 1 ELSE @,
              !.tasks[task_id].failure_count = @ + 1,
              !.tasks[task_id].is_running = FALSE]

\* The result recorded without "task.is_running = False".
RecordResultStillRunning(s, task_id, log_id, result) ==
    [s EXCEPT !.logs = SetLogStatus(@, log_id, result),
              !.tasks[task_id].success_count = IF result = "success" THEN @ + 1 ELSE @,
              !.tasks[task_id].failure_count = IF result = "success" THEN @ ELSE @ + 1]

\* "log.status = result["status"]; ...; task.success_count += 1 (or
\* task.failure_count += 1); task.is_running = False", the same lines in
\* _run_task and run_task_now.
RecordResult(s, task_id, log_id, result) ==
    [s EXCEPT !.logs = SetLogStatus(@, log_id, result),
              !.tasks[task_id].success_count = IF result = "success" THEN @ + 1 ELSE @,
              !.tasks[task_id].failure_count = IF result = "success" THEN @ ELSE @ + 1,
              !.tasks[task_id].is_running = FALSE]

\* _run_task: "except Exception as e: ... if task: task.is_running = False;
\* self.db.commit()".  loaded: the task was read before the exception.  The
\* commit raises when the store fails or the row is gone, and that exception
\* leaves _run_task.
ExceptHandler(s, task_id, loaded, cx) ==
    IF ~loaded THEN [s EXCEPT !.out = "swallowed"]
    ELSE IF ~s.tasks[task_id].exists THEN [s EXCEPT !.out = "raised"]
    ELSE IF cx THEN [s EXCEPT !.tasks[task_id].is_running = FALSE, !.out = "swallowed"]
    ELSE [Hit(s) EXCEPT !.out = "raised"]

\* The reload of _run_task testing only that the row exists.
NotTask(s, task_id) == ~s.tasks[task_id].exists

\* _run_task: "if not task or not task.is_active: return"
NotTaskOrNotActive(s, task_id) ==
    ~s.tasks[task_id].exists \/ ~s.tasks[task_id].is_active

\* _run_task, from its start to the await of the executor (or to its return).
run_task_begin(s, task_id, f) ==
    IF InRunningSet(s, task_id) THEN Skip(s, task_id)
    ELSE
    LET s1 == [s EXCEPT !.running = @ \cup {task_id}] IN
    IF f.at = "query" THEN Finally(ExceptHandler(Hit(s1), task_id, FALSE, f.cx), task_id)
    ELSE IF NotTaskOrNotActive(s1, task_id)
         THEN Finally([s1 EXCEPT !.out = "aborted"], task_id)
    ELSE IF f.at = "c1" THEN Finally(ExceptHandler(Hit(s1), task_id, TRUE, f.cx), task_id)
    ELSE
    LET s2 == MarkStarted(s1, task_id) IN
    IF f.at = "c2" THEN Finally(ExceptHandler(Hit(s2), task_id, TRUE, f.cx), task_id)
    ELSE
    LET id == s2.log_seq + 1
        s3 == [s2 EXCEPT !.log_seq = id,
                         !.logs = @ \cup {TaskLogRow(id, task_id, "scheduled")},
                         !.log = id] IN
    IF s3.tasks[task_id].task_type \notin TaskType
    THEN Finally(ExceptHandler(s3, task_id, TRUE, f.cx), task_id)
    ELSE [s3 EXCEPT !.out = "awaiting"]

\* "if (failed and task.notify_on_failure) or (success and task.notify_on_success)"
ShouldNotify(task, status) ==
    \/ (status = "failed" /\ task.notify_on_failure)
    \/ (status = "success" /\ task.notify_on_success)

\* _run_task, from the return of the executor to its end.  result: the status
\* execute returned, or "raise".
run_task_end(s, task_id, log_id, result, f) ==
    IF result = "raise" \/ ~s.tasks[task_id].exists
    THEN Finally(ExceptHandler(s, task_id, TRUE, f.cx), task_id)
    ELSE IF f.at = "c3" THEN Finally(ExceptHandler(Hit(s), task_id, TRUE, f.cx), task_id)
    ELSE
    LET task == s.tasks[task_id]
        s0 == RecordResult(s, task_id, log_id, result)
        s1 == [s0 EXCEPT !.tasks[task_id].next_run_at =
                            IF task_id \in s.jobs THEN job_next_run_time(s, task_id) ELSE @]
        s2 == IF ShouldNotify(task, result)
              THEN [s1 EXCEPT !.notified = @ \cup {log_id}] ELSE s1
    IN Finally([s2 EXCEPT !.out = "completed"], task_id)

\* A run_task_now that adds the id to the running set before it looks the
\* task up, outside the try block.
run_task_now_marking(s, task_id, trigger_type, f) ==
    IF f.at = "query" THEN [Hit(s) EXCEPT !.out = "raised"]
    ELSE IF AlreadyRunning(s, task_id) THEN [s EXCEPT !.out = "AlreadyRunning"]
    ELSE
    LET s1 == [s EXCEPT !.running = @ \cup {task_id}] IN
    IF ~s1.tasks[task_id].exists THEN [s1 EXCEPT !.out = "None"]
    ELSE IF f.at = "c1" THEN Finally([Hit(s1) EXCEPT !.out = "raised"], task_id)
    ELSE
    LET s2 == MarkStarted(s1, task_id) IN
    IF f.at = "c2" THEN Finally([Hit(s2) EXCEPT !.out = "raised"], task_id)
    ELSE
    LET id == s2.log_seq + 1
        s3 == [s2 EXCEPT !.log_seq = id,
                         !.logs = @ \cup {TaskLogRow(id, task_id, trigger_type)},
                         !.log = id] IN
    IF s3.tasks[task_id].task_type \notin TaskType
    THEN Finally([s3 EXCEPT !.out = "raised"], task_id)
    ELSE [s3 EXCEPT !.out = "awaiting"]

\* run_task_now, from its start to the await of the executor (or to its end).
run_task_now_begin(s, task_id, trigger_type, f) ==
    IF f.at = "query" THEN [Hit(s) EXCEPT !.out = "raised"]
    ELSE IF ~s.tasks[task_id].exists THEN [s EXCEPT !.out = "None"]
    ELSE IF AlreadyRunning(s, task_id) THEN [s EXCEPT !.out = "AlreadyRunning"]
    ELSE
    LET s1 == [s EXCEPT !.running = @ \cup {task_id}] IN
    IF f.at = "c1" THEN Finally([Hit(s1) EXCEPT !.out = "raised"], task_id)
    ELSE
    LET s2 == MarkStarted(s1, task_id) IN
    IF f.at = "c2" THEN Finally([Hit(s2) EXCEPT !.out = "raised"], task_id)
    ELSE
    LET id == s2.log_seq + 1
        s3 == [s2 EXCEPT !.log_seq = id,
                         !.logs = @ \cup {TaskLogRow(id, task_id, trigger_type)},
                         !.log = id] IN
    IF s3.tasks[task_id].task_type \notin TaskType
    THEN Finally([s3 EXCEPT !.out = "raised"], task_id)
    ELSE [s3 EXCEPT !.out = "awaiting"]

\* run_task_now, from the return of the executor to its end.
run_task_now_end(s, task_id, log_id, result, f) ==
    IF result = "raise" \/ ~s.tasks[task_id].exists
    THEN Finally([s EXCEPT !.out = "raised"], task_id)
    ELSE IF f.at = "c3" THEN Finally([Hit(s) EXCEPT !.out = "raised"], task_id)
    ELSE
    LET s1 == RecordResult(s, task_id, log_id, result)
    IN Finally([s1 EXCEPT !.out = "log", !.log = log_id], task_id)

\* A remove_job that leaves the job in place.
remove_job_skipped(s, task_id) == s

\* "if self.scheduler.get_job(job_id): self.scheduler.remove_job(job_id)"
remove_job(s, task_id) == [s EXCEPT !.jobs = @ \ {task_id}]

\* A field count test that expects a seconds field as well.
CronPartsSix(cron_expression) == Len(cron_expression) = 6

\* "cron_parts = task.cron_expression.split(); if len(cron_parts) != 5"
CronPartsOk(cron_expression) == Len(cron_expression) = 5

\* A CronTrigger that accepts every field.
CronTriggerLenient(cron_expression) == TRUE

\* CronTrigger(minute=..., hour=..., day=..., month=..., day_of_week=...):
\* raises ValueError on a field it cannot parse.
CronTriggerOk(cron_expression) ==
    \A i \in 1..Len(cron_expression) : CronFieldOk(cron_expression[i])

\* add_task(task): task is the caller's Task object (its is_active and
\* cron_expression); commit_ok: whether self.db.commit() succeeds.
add_task(s, task_id, task, commit_ok) ==
    LET s1 == remove_job(s, task_id) IN
    IF ~task.is_active THEN [s1 EXCEPT !.out = "True"]
    ELSE IF ~CronPartsOk(task.cron_expression) THEN [s1 EXCEPT !.out = "False"]
    ELSE IF ~CronTriggerOk(task.cron_expression) THEN [s1 EXCEPT !.out = "False"]
    ELSE
    LET s2 == [s1 EXCEPT !.jobs = @ \cup {task_id}, !.set_next_run_at = TRUE] IN
    IF commit_ok THEN [s2 EXCEPT !.out = "True"] ELSE [s2 EXCEPT !.out = "False"]

\* A remove_task that removes the jobs of all tasks.
remove_all_jobs(s, task_id) == [s EXCEPT !.jobs = {}]

\* remove_task(task_id)
remove_task(s, task_id) ==
    IF task_id \in s.jobs THEN remove_job(s, task_id) ELSE s

\* An update_task that puts the previous timers back when add_task fails.
update_task_restoring(s, task_id, task, commit_ok) ==
    LET a == add_task(remove_task(s, task_id), task_id, task, commit_ok)
    IN IF a.out = "False" THEN [a EXCEPT !.jobs = s.jobs] ELSE a

\* update_task(task): "await self.remove_task(task.id); return await self.add_task(task)"
update_task(s, task_id, task, commit_ok) ==
    add_task(remove_task(s, task_id), task_id, task, commit_ok)

----------------------------------------------------------------------------
\* The state after construction: no job, nothing running, the rows of the store.

\* No call of execute is followed.
NoCall == [ pc |-> "none" ]

Init ==
    /\ \E ty \in [TaskIds -> TaskType] :
           /\ \A t \in TaskIds : ty[t] \in StoredTaskTypes(t)
           /\ tasks = [t \in TaskIds |->
                         TaskRow(ty[t], StoredNotifySettings(t)[1],
                                 StoredNotifySettings(t)[2])]
    /\ logs = {}
    /\ log_seq = 0
    /\ running_tasks = {}
    /\ jobs = {}
    /\ runs = {}
    /\ notified = {}
    /\ executions = [t \in TaskIds |-> 0]
    /\ faulty = 0
    /\ phase = "startup"
    /\ call = NoCall

\* What a handler leaves in the program state.
Apply(s) ==
    /\ tasks' = s.tasks
    /\ logs' = s.logs
    /\ log_seq' = s.log_seq
    /\ running_tasks' = s.running
    /\ notified' = s.notified

Executed(task_id, result) ==
    executions' = IF result = "raise" THEN executions
                  ELSE [executions EXCEPT ![task_id] = @ + 1]

\* A step in which a store operation failed, or in which the executor raised
\* (its log file could not be written), counts as faulty.
Met(s, result) ==
    /\ (s.hit \/ result = "raise") => faulty < MaxFaulty
    /\ faulty' = IF s.hit \/ result = "raise" THEN faulty + 1 ELSE faulty

ApplyJobs(s) == jobs' = s.jobs

\* The scheduled runs of a task the APScheduler counts as instances of its job.
Instances(task_id) ==
    Cardinality({ r \in runs : r.task = task_id /\ r.trigger = "scheduled" })

\* A coroutine of _run_task or run_task_now: dispatched (not started yet) or
\* executing (suspended in "await self.executor.execute(...)"), the TaskLog it
\* created and the task type it passed to the executor.
NewRun(task_id, trigger, pc, log_id, task_type) ==
    [ task |-> task_id, trigger |-> trigger, pc |-> pc, log |-> log_id,
      task_type |-> task_type ]

RECURSIVE SumOver(_, _)
SumOver(f, S) == IF S = {} THEN 0
                 ELSE LET x == CHOOSE y \in S : TRUE IN f[x] + SumOver(f, S \ {x})

\* The model starts no run once MaxRuns runs were counted, and lets at most
\* MaxFaulty handler steps meet a failing store or log-file operation.
RunsStarted ==
    SumOver([t \in TaskIds |-> tasks[t].run_count], TaskIds)
        + Cardinality({ r \in runs : r.pc = "dispatched" })

\* The scheduler wakes up at the next instant and processes the due jobs, all
\* of them in one call: each job's next_run_time advances and, unless
\* max_instances instances of the job are running, _run_task(task_id) is
\* started as a coroutine of the loop.
Wakeup ==
    /\ phase = "serving"
    /\ RunsStarted + Cardinality(jobs) <= MaxRuns
    /\ tasks' = [t \in TaskIds |->
                    IF tasks[t].next_run_at = NextInstant
                    THEN [tasks[t] EXCEPT !.next_run_at = PassedInstant]
                    ELSE tasks[t]]
    /\ runs' = runs \cup { NewRun(t, "scheduled", "dispatched", 0, "") :
                           t \in { j \in jobs : Instances(j) < max_instances } }
    /\ UNCHANGED <<call, logs, log_seq, running_tasks, jobs, notified,
                   executions, faulty, phase>>

\* The loop runs the coroutine of _run_task up to its first suspension: the
\* await of the executor for a strategy that suspends, its end otherwise.
RunTask(r) ==
    /\ r \in runs /\ r.trigger = "scheduled" /\ r.pc = "dispatched"
    /\ \E f \in RunTaskBeginFaults :
         LET s == run_task_begin(St, r.task, f) IN
         IF s.out # "awaiting"
         THEN /\ Apply(s)
              /\ runs' = runs \ {r}
              /\ Met(s, "")
              /\ UNCHANGED executions
         ELSE IF Suspends(s.tasks[r.task].task_type)
         THEN /\ Apply(s)
              /\ runs' = (runs \ {r}) \cup {NewRun(r.task, "scheduled", "executing", s.log,
                                                     s.tasks[r.task].task_type)}
              /\ Met(s, "")
              /\ UNCHANGED executions
         ELSE \E result \in ExecuteResults, g \in RunTaskEndFaults :
                LET e == run_task_end(s, r.task, s.log, result, g) IN
                /\ Apply(e)
                /\ runs' = runs \ {r}
                /\ Met(e, result)
                /\ Executed(r.task, result)
    /\ UNCHANGED <<call, jobs, phase>>

\* The executor returns (or raises) and _run_task runs to its end.
RunTaskResume(r) ==
    /\ r \in runs /\ r.trigger = "scheduled" /\ r.pc = "executing"
    /\ \E result \in ExecuteResults, g \in RunTaskEndFaults :
         LET e == run_task_end(St, r.task, r.log, result, g) IN
         /\ Apply(e)
         /\ Met(e, result)
         /\ Executed(r.task, result)
    /\ runs' = runs \ {r}
    /\ UNCHANGED <<call, jobs, phase>>

\* A caller awaits run_task_now(task_id, trigger_type).
RunTaskNow(task_id, trigger_type) ==
    /\ phase = "serving"
    /\ RunsStarted < MaxRuns
    /\ \E f \in RunTaskNowBeginFaults :
         LET s == run_task_now_begin(St, task_id, trigger_type, f) IN
         IF s.out # "awaiting"
         THEN /\ Apply(s)
              /\ runs' = runs
              /\ Met(s, "")
              /\ UNCHANGED executions
         ELSE IF Suspends(s.tasks[task_id].task_type)
         THEN /\ Apply(s)
              /\ runs' = runs \cup {NewRun(task_id, trigger_type, "executing", s.log,
                                               s.tasks[task_id].task_type)}
              /\ Met(s, "")
              /\ UNCHANGED executions
         ELSE \E result \in ExecuteResults, g \in RunTaskNowEndFaults :
                LET e == run_task_now_end(s, task_id, s.log, result, g) IN
                /\ Apply(e)
                /\ runs' = runs
                /\ Met(e, result)
                /\ Executed(task_id, result)
    /\ UNCHANGED <<call, jobs, phase>>

\* The executor returns (or raises) and run_task_now runs to its end.
RunTaskNowResume(r) ==
    /\ r \in runs /\ r.trigger # "scheduled" /\ r.pc = "executing"
    /\ \E result \in ExecuteResults, g \in RunTaskNowEndFaults :
         LET e == run_task_now_end(St, r.task, r.log, result, g) IN
         /\ Apply(e)
         /\ Met(e, result)
         /\ Executed(r.task, result)
    /\ runs' = runs \ {r}
    /\ UNCHANGED <<call, jobs, phase>>

\* A startup loop that ends at the first add_task that returns False.
RECURSIVE RegisterAllUntilFailure(_, _, _)
RegisterAllUntilFailure(s, ids, commit_ok) ==
    IF ids = {} THEN s
    ELSE LET t == CHOOSE x \in ids : \A y \in ids : x <= y
             s1 == IF s.tasks[t].exists
                   THEN add_task(s, t, s.tasks[t], commit_ok) ELSE s
         IN IF s1.out = "False" THEN s1
            ELSE RegisterAllUntilFailure(s1, ids \ {t}, commit_ok)

\* lifespan: "for task in all_tasks: await scheduler_service.add_task(task)".
RECURSIVE RegisterAll(_, _, _)
RegisterAll(s, ids, commit_ok) ==
    IF ids = {} THEN s
    ELSE LET t == CHOOSE x \in ids : \A y \in ids : x <= y
             s1 == IF s.tasks[t].exists
                   THEN add_task(s, t, s.tasks[t], commit_ok) ELSE s
         IN RegisterAll(s1, ids \ {t}, commit_ok)

\* The application starts: lifespan registers the stored tasks and yields.  It
\* reads the rows through a session of its own that it closes without a
\* commit: the next_run_at add_task assigns is not written to the store.
Lifespan ==
    /\ phase = "startup"
    /\ \E commit_ok \in BOOLEAN : ApplyJobs(RegisterAll(St, TaskIds, commit_ok))
    /\ phase' = "serving"
    /\ UNCHANGED <<call, tasks, logs, log_seq, running_tasks, runs, notified,
                   executions, faulty>>

\* A caller awaits remove_task(task_id).
RemoveTask(task_id) ==
    /\ phase = "serving"
    /\ ApplyJobs(remove_task(St, task_id))
    /\ UNCHANGED <<call, tasks, logs, log_seq, running_tasks, runs, notified,
                   executions, faulty, phase>>

\* The update endpoint: the new is_active and cron_expression are written to
\* the row and committed, then update_task(task) is awaited; the row keeps the
\* next_run_at add_task assigned.
ApiUpdateTask(task_id, is_active, cron_expression) ==
    /\ phase = "serving"
    /\ tasks[task_id].exists
    /\ LET task == [tasks[task_id] EXCEPT !.is_active = is_active,
                                          !.cron_expression = cron_expression]
       IN \E commit_ok \in BOOLEAN :
            LET s == update_task(St, task_id, task, commit_ok) IN
            /\ ApplyJobs(s)
            /\ tasks' = [tasks EXCEPT ![task_id] =
                            IF s.set_next_run_at /\ commit_ok
                            THEN [task EXCEPT !.next_run_at = job_next_run_time(s, task_id)]
                            ELSE task]
    /\ UNCHANGED <<call, logs, log_seq, running_tasks, runs, notified, executions, faulty,
                   phase>>

\* The row of a deleted task.
NoTask == [TaskRow("http", FALSE, FALSE) EXCEPT !.exists = FALSE, !.is_active = FALSE]

\* The delete endpoint: remove_task(task_id), then the row and its TaskLog
\* rows are deleted.
ApiDeleteTask(task_id) ==
    /\ phase = "serving"
    /\ tasks[task_id].exists
    /\ ApplyJobs(remove_task(St, task_id))
    /\ tasks' = [tasks EXCEPT ![task_id] = NoTask]
    /\ logs' = { l \in logs : l.task_id # task_id }
    /\ notified' = { id \in notified : \E l \in logs' : l.id = id }
    /\ UNCHANGED <<call, log_seq, running_tasks, runs, executions, faulty, phase>>

Next ==
    \/ Lifespan
    \/ Wakeup
    \/ \E r \in runs : RunTask(r)
    \/ \E r \in runs : RunTaskResume(r)
    \/ \E t \in TaskIds, tr \in ManualTriggerTypes : RunTaskNow(t, tr)
    \/ \E r \in runs : RunTaskNowResume(r)
    \/ \E t \in TaskIds : RemoveTask(t)
    \/ \E t \in TaskIds, a \in BOOLEAN, c \in {DefaultCron} : ApiUpdateTask(t, a, c)
    \/ \E t \in TaskIds : ApiDeleteTask(t)

Spec == Init /\ [][Next]_vars

\* The event loop runs every coroutine that is ready: a dispatched _run_task
\* starts, and a run whose strategy bounds its wait is resumed.  Nothing
\* resumes a run whose strategy waits without a timeout.
Fairness ==
    /\ WF_vars(\E r \in runs : RunTask(r))
    /\ WF_vars(\E r \in runs : HasTimeout(r.task_type) /\ RunTaskResume(r))
    /\ WF_vars(\E r \in runs : HasTimeout(r.task_type) /\ RunTaskNowResume(r))

FairSpec == Spec /\ Fairness

\* Registration: the store may hold, at startup, rows that are inactive or whose
\* cron expression is malformed, and the update endpoint is given any of the
\* cron expressions; tasks run from their timers only.
RegInit ==
    /\ \E a \in [TaskIds -> BOOLEAN], c \in [TaskIds -> CronExprs] :
           tasks = [t \in TaskIds |->
                      [TaskRow("shell", StoredNotifySettings(t)[1],
                               StoredNotifySettings(t)[2])
                          EXCEPT !.is_active = a[t], !.cron_expression = c[t]]]
    /\ logs = {}
    /\ log_seq = 0
    /\ running_tasks = {}
    /\ jobs = {}
    /\ runs = {}
    /\ notified = {}
    /\ executions = [t \in TaskIds |-> 0]
    /\ faulty = 0
    /\ phase = "startup"
    /\ call = NoCall

RegNext ==
    \/ Lifespan
    \/ Wakeup
    \/ \E r \in runs : RunTask(r)
    \/ \E r \in runs : RunTaskResume(r)
    \/ \E t \in TaskIds : RemoveTask(t)
    \/ \E t \in TaskIds, a \in BOOLEAN, c \in CronExprs : ApiUpdateTask(t, a, c)
    \/ \E t \in TaskIds : ApiDeleteTask(t)

RegSpec == RegInit /\ [][RegNext]_vars

----------------------------------------------------------------------------
\* TaskExecutor.execute, one call followed step by step.

\* What the operation behind a call does when it is left alone.  HTTP: a
\* response with a status below 400 ("ok"), with a status of 400 or more
\* ("bad"), a network failure ("error"), no response at all ("hang").  Shell,
\* python and the tar of a compressed backup: exit code 0 ("ok"), a nonzero
\* exit code ("bad"), the process cannot be created ("error"), the process
\* never exits ("hang").  The copy of an uncompressed backup: done ("ok"),
\* an OSError ("error"), a copy that never ends ("hang").
Outcomes == {"ok", "bad", "error", "hang"}

\* config["method"]: one method _execute_http supports and one it does not.
Methods == {"GET", "PATCH"}

\* A task_type that is none of the members of TaskType.
UnknownTaskType == "unknown"

\* The result dict: status, exit_code, and the kind of error_message.
Result(status, exit_code, error_message) ==
    [ status |-> status, exit_code |-> exit_code, error_message |-> error_message ]

NoResult == Result("none", 0, "none")

\* execute: "except Exception as e: result = {status: failed, error_message:
\* str(e), exit_code: -1, ...}"
ExceptionResult == Result("failed", -1, "str(e)")

\* A call of execute(task_id, task_name, task_type, config) about to start.
\* handler: control is in the except block of execute; primary: the result the
\* strategy produced; log_failed: a write of the per-task log file failed;
\* appended: the entries this call has appended to task_<id>.log.
Call(task_type, method, source_exists, compress, outcome) ==
    [ pc |-> "called", task_type |-> task_type, method |-> method,
      source_exists |-> source_exists, compress |-> compress,
      outcome |-> outcome, handler |-> FALSE, primary |-> NoResult,
      result |-> NoResult, log_failed |-> FALSE, appended |-> 0 ]

Calls ==
    { Call("http", m, TRUE, TRUE, o) : m \in Methods, o \in Outcomes }
    \cup { Call(ty, "GET", TRUE, TRUE, o) :
               ty \in {"shell", "python", UnknownTaskType}, o \in Outcomes }
    \cup { Call("backup", "GET", e, TRUE, o) : e \in BOOLEAN, o \in Outcomes }
    \cup { Call("backup", "GET", e, FALSE, o) :
               e \in BOOLEAN, o \in Outcomes \ {"bad"} }

\* The strategy up to its first wait: it waits for the operation, returns a
\* result at once, or raises into execute.
Started(c) ==
    IF c.task_type = "http"
    THEN IF c.method \in {"GET", "POST", "PUT", "DELETE"}
         THEN [ kind |-> "waits", result |-> NoResult ]
         ELSE [ kind |-> "raises", result |-> NoResult ]
    ELSE IF c.task_type \in {"shell", "python"}
    THEN IF c.outcome = "error"
         THEN [ kind |-> "raises", result |-> NoResult ]
         ELSE [ kind |-> "waits", result |-> NoResult ]
    ELSE IF c.task_type = "backup"
    THEN IF ~c.source_exists
         THEN [ kind |-> "returns",
                result |-> Result("failed", -1, "Source path does not exist") ]
         ELSE IF c.outcome = "error"
         THEN [ kind |-> "returns", result |-> Result("failed", -1, "str(e)") ]
         ELSE [ kind |-> "waits", result |-> NoResult ]
    ELSE [ kind |-> "raises", result |-> NoResult ]

\* process.returncode of a process that exited.
returncode(c) == IF c.outcome = "ok" THEN 0 ELSE 1

\* A strategy that reports success whatever the exit code is.
CompletedAlwaysSuccess(c) == Result("success", returncode(c), "None")

\* response.status_code of a response that was received.
status_code(c) == IF c.outcome = "ok" THEN 200 ELSE 404

\* The result of the process strategies, and of an HTTP strategy that takes
\* every status code below 500 for a success.
CompletedBelow500(c) ==
    IF c.task_type = "http"
    THEN IF c.outcome \in {"ok", "bad"}
         THEN Result(IF status_code(c) < 500 THEN "success" ELSE "failed",
                     status_code(c),
                     IF status_code(c) < 500 THEN "None" ELSE "HTTP 404")
         ELSE Result("failed", -1, "Request failed")
    ELSE Result(IF returncode(c) = 0 THEN "success" ELSE "failed", returncode(c),
                IF c.outcome = "ok" THEN "None" ELSE "stderr")

\* The result of the strategy when the operation ended by itself.
Completed(c) ==
    IF c.task_type = "http"
    THEN IF c.outcome \in {"ok", "bad"}
         THEN Result(IF status_code(c) < 400 THEN "success" ELSE "failed",
                     status_code(c),
                     IF status_code(c) < 400 THEN "None" ELSE "HTTP 404")
         ELSE Result("failed", -1, "Request failed")
    ELSE Result(IF returncode(c) = 0 THEN "success" ELSE "failed", returncode(c),
                IF c.outcome = "ok" THEN "None" ELSE "stderr")

\* The result of the strategy when its timeout expired: requests raises
\* Timeout, a RequestException; asyncio.wait_for raises TimeoutError and the
\* process is killed.
TimedOut(c) ==
    IF c.task_type = "http" THEN Result("failed", -1, "Request failed: timed out")
    ELSE IF c.task_type = "shell" THEN Result("failed", -1, "Command timed out")
    ELSE Result("failed", -1, "Python script timed out")

\* The scheduler does not move while a call of execute is followed.
Scheduler == <<tasks, logs, log_seq, running_tasks, jobs, runs, notified,
               executions, faulty, phase>>

\* execute is called with any of the calls.
ExecInit ==
    /\ call \in Calls
    /\ tasks = [t \in TaskIds |-> TaskRow(call.task_type, FALSE, TRUE)]
    /\ logs = {}
    /\ log_seq = 0
    /\ running_tasks = {}
    /\ jobs = {}
    /\ runs = {}
    /\ notified = {}
    /\ executions = [t \in TaskIds |-> 0]
    /\ faulty = 0
    /\ phase = "startup"

\* execute dispatches to the strategy of the task type, which runs up to its
\* first wait.
Execute ==
    /\ call.pc = "called"
    /\ LET st == Started(call) IN
       call' = IF st.kind = "waits" THEN [call EXCEPT !.pc = "waiting"]
               ELSE IF st.kind = "returns"
               THEN [call EXCEPT !.pc = "logging", !.primary = st.result,
                                 !.result = st.result]
               ELSE [call EXCEPT !.pc = "logging", !.handler = TRUE,
                                 !.primary = ExceptionResult,
                                 !.result = ExceptionResult]
    /\ UNCHANGED Scheduler

\* The operation ends by itself.
OperationEnds ==
    /\ call.pc = "waiting"
    /\ call.outcome # "hang"
    /\ call' = [call EXCEPT !.pc = "logging", !.primary = Completed(call),
                            !.result = Completed(call)]
    /\ UNCHANGED Scheduler

\* The timeout of the strategy expires before the operation has ended.
TimeoutExpires ==
    /\ call.pc = "waiting"
    /\ HasTimeout(call.task_type)
    /\ call' = [call EXCEPT !.pc = "logging", !.primary = TimedOut(call),
                            !.result = TimedOut(call)]
    /\ UNCHANGED Scheduler

\* "await self._log_execution(task_id, task_name, result)", in the try block
\* or in the except block of execute; ok: the log file could be written.  A
\* write that fails at open() has appended nothing; one that fails when the
\* file is flushed and closed may have appended its entry (written).
LogExecution ==
    /\ call.pc = "logging"
    /\ \E ok \in BOOLEAN, written \in BOOLEAN :
           /\ ok => written
           /\ call' = IF ok THEN [call EXCEPT !.pc = "returned", !.appended = @ + 1]
                      ELSE IF ~call.handler
                      THEN [call EXCEPT !.handler = TRUE, !.result = ExceptionResult,
                                        !.log_failed = TRUE,
                                        !.appended = IF written THEN @ + 1 ELSE @]
                      ELSE [call EXCEPT !.pc = "raised", !.result = NoResult,
                                        !.log_failed = TRUE,
                                        !.appended = IF written THEN @ + 1 ELSE @]
    /\ UNCHANGED Scheduler

ExecNext ==
    \/ Execute
    \/ OperationEnds
    \/ TimeoutExpires
    \/ LogExecution

ExecSpec == ExecInit /\ [][ExecNext]_vars

\* The event loop runs execute on; an operation that ends, ends; a timeout
\* that was set, expires.
ExecFairness ==
    /\ WF_vars(Execute)
    /\ WF_vars(OperationEnds)
    /\ WF_vars(TimeoutExpires)
    /\ WF_vars(LogExecution)

ExecFairSpec == ExecSpec /\ ExecFairness

----------------------------------------------------------------------------
\* TaskExecutor._execute_backup and _cleanup_old_backups, one run followed
\* step by step over the entries of the destination directory.

\* "retention_days * 86400"
SecondsPerDay == 86400

\* retention_days is one of 0..MaxRetention; the destination holds at most
\* MaxEntries entries before the run.
MaxRetention == 2
MaxEntries == 2

\* The age of an entry: the seconds from its os.path.getctime to the
\* time.time() of the cleanup.
Ages == {0, 1, SecondsPerDay, SecondsPerDay + 1, 2 * SecondsPerDay,
         2 * SecondsPerDay + 1}

\* An entry of the destination: an artifact of an earlier backup run
\* ("backup"), any other file or directory ("other"), or the artifact of
\* this run ("new").
Entry(kind, age) == [ kind |-> kind, age |-> age ]

PriorEntries == { Entry(k, a) : k \in {"backup", "other"}, a \in Ages }

\* The artifact was created before the cleanup reads the clock: its ctime is
\* the instant of the cutoff's time.time() or an earlier one.
ArtifactAges == {0, 1}

\* A run of _execute_backup(config) about to start.  outcome: what tar or the
\* copy does; listing: whether os.listdir / os.path.getctime of the cleanup
\* succeed.
BackupCall(source_exists, compress, retention_days, dest_exists, entries, outcome, listing) ==
    [ pc |-> "called", task_type |-> "backup", source_exists |-> source_exists,
      compress |-> compress, retention_days |-> retention_days,
      dest_exists |-> dest_exists, entries |-> entries, outcome |-> outcome,
      listing |-> listing, result |-> NoResult ]

BackupCalls ==
    { BackupCall(e, c, r, d, es, o, l) :
          e \in BOOLEAN, c \in BOOLEAN, r \in 0..MaxRetention, d \in BOOLEAN,
          es \in { s \in SUBSET PriorEntries : Cardinality(s) <= MaxEntries },
          o \in Outcomes, l \in BOOLEAN }

\* "cutoff = time.time() - (retention_days * 86400)";
\* "if os.path.getctime(filepath) < cutoff"
OlderThanCutoff(c, e) == e.age > c.retention_days * SecondsPerDay

BackupInit ==
    /\ call \in { c \in BackupCalls :
                      /\ ~c.dest_exists => c.entries = {}
                      /\ ~c.compress => c.outcome # "bad" }
    /\ tasks = [t \in TaskIds |-> TaskRow("backup", FALSE, TRUE)]
    /\ logs = {}
    /\ log_seq = 0
    /\ running_tasks = {}
    /\ jobs = {}
    /\ runs = {}
    /\ notified = {}
    /\ executions = [t \in TaskIds |-> 0]
    /\ faulty = 0
    /\ phase = "startup"

\* The destination is created before the source is looked at.
CheckSourceAfterMakedirs ==
    /\ call.pc = "called"
    /\ call' = IF ~call.source_exists
               THEN [call EXCEPT !.pc = "returned", !.dest_exists = TRUE,
                        !.result = Result("failed", -1, "Source path does not exist")]
               ELSE [call EXCEPT !.pc = "archiving", !.dest_exists = TRUE]
    /\ UNCHANGED Scheduler

\* "if not os.path.exists(source): return {failed, -1}";
\* "os.makedirs(destination, exist_ok=True)"
CheckSource ==
    /\ call.pc = "called"
    /\ call' = IF ~call.source_exists
               THEN [call EXCEPT !.pc = "returned",
                        !.result = Result("failed", -1, "Source path does not exist")]
               ELSE [call EXCEPT !.pc = "archiving", !.dest_exists = TRUE]
    /\ UNCHANGED Scheduler

\* tar exits, or the copy ends: the artifact is in the destination, or the
\* strategy returns a failed result.
ArchiveEnds ==
    /\ call.pc = "archiving"
    /\ call.outcome # "hang"
    /\ \E a \in ArtifactAges :
           call' = IF call.outcome = "ok"
                   THEN [call EXCEPT !.pc = "cleanup",
                                     !.entries = @ \cup {Entry("new", a)}]
                   ELSE IF call.outcome = "bad"
                   THEN [call EXCEPT !.pc = "returned",
                            !.result = Result("failed", returncode(call), "stderr")]
                   ELSE [call EXCEPT !.pc = "returned",
                            !.result = Result("failed", -1, "str(e)")]
    /\ UNCHANGED Scheduler

\* _cleanup_old_backups: every entry older than the cutoff is removed, unless
\* its removal fails (failing, logged as a warning); then the success result.
\* A failing listdir or getctime raises into the except of _execute_backup.
CleanupOldBackups ==
    /\ call.pc = "cleanup"
    /\ \E failing \in SUBSET { e \in call.entries : OlderThanCutoff(call, e) } :
           call' = IF ~call.listing
                   THEN [call EXCEPT !.pc = "returned",
                                     !.result = Result("failed", -1, "str(e)")]
                   ELSE [call EXCEPT !.pc = "returned",
                            !.entries = { e \in @ : OlderThanCutoff(call, e) => e \in failing },
                            !.result = Result("success", 0, "None")]
    /\ UNCHANGED Scheduler

BackupNext ==
    \/ CheckSource
    \/ ArchiveEnds
    \/ CleanupOldBackups

BackupSpec == BackupInit /\ [][BackupNext]_vars

----------------------------------------------------------------------------
\* Shutdown: lifespan calls scheduler_service.shutdown() after the yield.

\* shutdown(): "self.scheduler.shutdown()".  The scheduler stops: no timer
\* fires any more, and the executor of the AsyncIOScheduler cancels the
\* futures of its jobs without waiting for them.  A dispatched _run_task that
\* has not started never runs; one that awaits the executor has its
\* cancellation pending when shutdown returns.  A run_task_now is no job of
\* the scheduler and is left alone.
Shutdown ==
    /\ phase = "serving"
    /\ phase' = "stopped"
    /\ runs' = { r \in runs : r.trigger # "scheduled" }
               \cup { [r EXCEPT !.pc = "cancelled"] :
                          r \in { x \in runs : x.trigger = "scheduled"
                                               /\ x.pc = "executing" } }
    /\ UNCHANGED <<call, tasks, logs, log_seq, running_tasks, jobs, notified,
                   executions, faulty>>

\* The loop delivers the cancellation: CancelledError is raised at the await
\* of the executor; it is no Exception, so only the finally of _run_task runs.
Cancelled(r) ==
    /\ r \in runs /\ r.pc = "cancelled"
    /\ LET s == Finally(St, r.task) IN Apply(s)
    /\ runs' = runs \ {r}
    /\ UNCHANGED <<call, jobs, executions, faulty, phase>>

StopNext ==
    \/ Lifespan
    \/ Wakeup
    \/ \E r \in runs : RunTask(r)
    \/ \E r \in runs : RunTaskResume(r)
    \/ \E t \in TaskIds, tr \in ManualTriggerTypes : RunTaskNow(t, tr)
    \/ \E r \in runs : RunTaskNowResume(r)
    \/ Shutdown
    \/ \E r \in runs : Cancelled(r)

StopSpec == Init /\ [][StopNext]_vars

----------------------------------------------------------------------------
\* The day-of-week field of the trigger: add_task hands cron_parts[4] to
\* CronTrigger(day_of_week=...) as it stands in the expression.

\* The calendar days a registered timer is observed for.
CronDays == 14

\* The weekday names of the trigger, in the order of its numbering: a number
\* n in the day_of_week field stands for WEEKDAYS[n + 1].
WEEKDAYS == <<"mon", "tue", "wed", "thu", "fri", "sat", "sun">>

\* date.weekday() of the day with the given number, Monday = 0; day 0 is
\* 1970-01-01, a Thursday.
weekday(day) == (day + 3) % 7

\* "week_days = {"一": 1, "二": 2, "三": 3, "四": 4, "五": 5, "六": 6, "日": 0, "天": 0}":
\* the number the repository's own expressions carry for each day of the week.
week_days ==
    [ d \in {"mon", "tue", "wed", "thu", "fri", "sat", "sun"} |->
        CASE d = "mon" -> 1 [] d = "tue" -> 2 [] d = "wed" -> 3
          [] d = "thu" -> 4 [] d = "fri" -> 5 [] d = "sat" -> 6
          [] d = "sun" -> 0 ]

\* The fifth field of an expression: "*" or a single number.
DayOfWeekFields == {"*"} \cup { ToString(n) : n \in 0..7 }

\* int(field) of a numeric field.
DayOfWeekValue(field) == CHOOSE n \in 0..7 : ToString(n) = field

\* CronTrigger accepts the numbers 0..6 in day_of_week and raises ValueError
\* above them; add_task then returns False.
DayOfWeekOk(field) == field = "*" \/ DayOfWeekValue(field) <= 6

\* The trigger matches a day when the field is "*" or its number is the
\* day's date.weekday().
DayOfWeekMatches(field, day) ==
    field = "*" \/ DayOfWeekValue(field) = weekday(day)

CronInit ==
    /\ call \in { [ pc |-> "created", day_of_week |-> f, today |-> 0, fired |-> {} ] :
                      f \in DayOfWeekFields }
    /\ tasks = [t \in TaskIds |-> TaskRow("shell", FALSE, TRUE)]
    /\ logs = {}
    /\ log_seq = 0
    /\ running_tasks = {}
    /\ jobs = {}
    /\ runs = {}
    /\ notified = {}
    /\ executions = [t \in TaskIds |-> 0]
    /\ faulty = 0
    /\ phase = "startup"

\* add_task of an active task whose expression has five fields, the first
\* four being "*": the trigger is built from the fifth.
CronAddTask ==
    /\ call.pc = "created"
    /\ call' = IF DayOfWeekOk(call.day_of_week)
               THEN [call EXCEPT !.pc = "registered"]
               ELSE [call EXCEPT !.pc = "rejected"]
    /\ UNCHANGED Scheduler

\* A calendar day passes: the timer fires on it when the trigger matches.
CronDayPasses ==
    /\ call.pc = "registered"
    /\ call.today < CronDays
    /\ call' = [call EXCEPT
                   !.today = @ + 1,
                   !.fired = IF DayOfWeekMatches(call.day_of_week, call.today)
                             THEN @ \cup {WEEKDAYS[weekday(call.today) + 1]}
                             ELSE @]
    /\ UNCHANGED Scheduler

CronNext ==
    \/ CronAddTask
    \/ CronDayPasses

CronSpec == CronInit /\ [][CronNext]_vars

----------------------------------------------------------------------------
\* Properties

\* The executor calls in flight for a task.
Executing(task_id) == { r \in runs : r.task = task_id /\ r.pc = "executing" }

\* What a handler leaves of the program state is what it found.
NoEffect(s) ==
    /\ s.tasks = tasks /\ s.logs = logs /\ s.log_seq = log_seq
    /\ s.running = running_tasks /\ s.notified = notified /\ s.jobs = jobs

\* C1: single-flight.  In every reachable state at most one executor call is
\* in flight per task id, and the id of a task with a call in flight is in the
\* running set.
SingleFlight ==
    \A t \in TaskIds :
        /\ Cardinality(Executing(t)) <= 1
        /\ Executing(t) # {} => t \in running_tasks

\* C1, its case: a firing of the task's timer is dispatched while a run of the
\* same task awaits the executor, the timer being registered.
SingleFlightContended ==
    \E r1 \in runs, r2 \in runs :
        /\ r1.task = r2.task /\ r1.task \in jobs
        /\ r1.pc = "executing" /\ r2.pc = "dispatched"

\* C2: is_running is true only while a run is in flight: a task whose id is
\* not in the running set has is_running = false.
IsRunningOnlyInFlight ==
    \A t \in TaskIds :
        (tasks[t].exists /\ t \notin running_tasks) => ~tasks[t].is_running

\* C3: guaranteed cleanup.  An id that is in the running set eventually leaves
\* it, so no task is blocked from running for ever.
GuaranteedCleanup ==
    \A t \in TaskIds : (t \in running_tasks) ~> (t \notin running_tasks)

\* C4: a firing whose callback starts for an id that is in the running set
\* changes nothing: no Task or TaskLog column, not the running set, not the
\* jobs; the executor is not invoked and no run is queued.
SkippedFiringIsNoOp ==
    [][ \A r \in runs :
            (r.task \in running_tasks /\ RunTask(r)) =>
                /\ UNCHANGED <<tasks, logs, log_seq, running_tasks, jobs,
                               notified, executions, faulty, phase>>
                /\ runs' = runs \ {r} ]_vars

\* C4, its case: the callback of a firing is about to start for an id that a
\* manual run put in the running set.
FiringWhileRunning ==
    \E r \in runs, m \in runs :
        /\ r.pc = "dispatched" /\ r.task \in running_tasks
        /\ m.task = r.task /\ m.pc = "executing" /\ m.trigger \in ManualTriggerTypes

FiringNeverRaises ==
    \A r \in runs :
        /\ (r.trigger = "scheduled" /\ r.pc = "dispatched") =>
               \A f \in RunTaskBeginFaults :
                   LET s == run_task_begin(St, r.task, f) IN
                   /\ s.out # "raised"
                   /\ s.out = "swallowed" => ~s.tasks[r.task].is_running
        /\ (r.trigger = "scheduled" /\ r.pc = "executing") =>
               \A result \in ExecuteResults, g \in RunTaskEndFaults :
                   LET e == run_task_end(St, r.task, r.log, result, g) IN
                   /\ e.out # "raised"
                   /\ e.tasks[r.task].exists => ~e.tasks[r.task].is_running

\* C7: success_count + failure_count <= run_count, for every task in every
\* reachable state.
StatisticsBound ==
    \A t \in TaskIds :
        tasks[t].success_count + tasks[t].failure_count <= tasks[t].run_count

\* C7, its case: a task has completed a successful and a failed run.
BothCountersUsed ==
    \E t \in TaskIds : tasks[t].success_count = 1 /\ tasks[t].failure_count = 1

\* C8: after N executions of a task returned a result, success_count +
\* failure_count = N and run_count >= N.
CompletedExecutionsCounted ==
    \A t \in TaskIds :
        tasks[t].exists =>
            /\ tasks[t].success_count + tasks[t].failure_count = executions[t]
            /\ tasks[t].run_count >= executions[t]

\* C9: for a task not in the running set, a manual run and a scheduled run
\* that meet no failure and get the same result leave the same Task columns,
\* the same TaskLog rows up to their trigger_type, the same notifications and
\* the same running set, and both do nothing for a missing or inactive task.
ManualMatchesScheduled ==
    \A t \in TaskIds \ running_tasks, tr \in ManualTriggerTypes,
       result \in {"success", "failed"} :
        LET sb == run_task_begin(St, t, NoFault)
            se == IF sb.out = "awaiting"
                  THEN run_task_end(sb, t, sb.log, result, NoFault) ELSE sb
            mb == run_task_now_begin(St, t, tr, NoFault)
            me == IF mb.out = "awaiting"
                  THEN run_task_now_end(mb, t, mb.log, result, NoFault) ELSE mb
            Untyped(ls) == { [l EXCEPT !.trigger_type = ""] : l \in ls }
        IN /\ se.tasks = me.tasks
           /\ Untyped(se.logs) = Untyped(me.logs)
           /\ se.notified = me.notified
           /\ se.running = me.running
           /\ (se.out = "aborted") <=> (me.out = "None")

\* C10: no TaskLog stays RUNNING once the run that created it has left the
\* running set.
NoLogStaysRunning ==
    \A l \in logs : l.status = "running" => l.task_id \in running_tasks

\* A malformed cron expression: not exactly 5 fields, or a field that is not
\* a cron field ("x" stands for such a field).
Malformed(cron_expression) ==
    \/ Len(cron_expression) # 5
    \/ \E i \in 1..Len(cron_expression) : cron_expression[i] = "x"

\* C11: add_task on an active task with a malformed cron expression returns
\* False (it never raises) and leaves no timer registered for the task id,
\* whether or not one was registered before; the store is not written.
MalformedCronRejected ==
    \A t \in TaskIds, c \in CronExprs, commit_ok \in BOOLEAN :
        (tasks[t].exists /\ Malformed(c)) =>
            LET task == [tasks[t] EXCEPT !.is_active = TRUE, !.cron_expression = c]
                s == add_task(St, t, task, commit_ok)
            IN /\ s.out = "False"
               /\ t \notin s.jobs
               /\ ~s.set_next_run_at
               /\ s.jobs \ {t} = jobs \ {t}

\* C11, its case: an active task was given a malformed cron expression while
\* the timer of another task is registered.
ActiveWithMalformedCron ==
    \E t \in TaskIds, u \in TaskIds :
        /\ phase = "serving" /\ u \in jobs
        /\ tasks[t].exists /\ tasks[t].is_active
        /\ Malformed(tasks[t].cron_expression) /\ t \notin jobs

\* C12: a timer is registered only for a task that is in the store, active and
\* has a well-formed cron expression; add_task on an inactive task cancels the
\* task's timer, registers none, touches no other timer and returns True.
TimerOnlyIfActiveAndValid ==
    /\ \A t \in jobs :
           /\ tasks[t].exists /\ tasks[t].is_active
           /\ ~Malformed(tasks[t].cron_expression)
    /\ \A t \in TaskIds, c \in CronExprs, commit_ok \in BOOLEAN :
           tasks[t].exists =>
               LET task == [tasks[t] EXCEPT !.is_active = FALSE,
                                            !.cron_expression = c]
                   s == add_task(St, t, task, commit_ok)
               IN /\ s.out = "True"
                  /\ s.jobs = jobs \ {t}

\* C12, its case: a task that ran from its timer was deactivated and its timer
\* is gone, while another task keeps its timer.
DeactivatedAfterRunning ==
    \E t \in TaskIds, u \in jobs :
        /\ tasks[t].exists /\ ~tasks[t].is_active
        /\ tasks[t].run_count > 0 /\ t \notin jobs /\ u # t

NextRunAtSynchronized ==
    phase = "serving" =>
        \A t \in TaskIds :
            tasks[t].exists =>
                /\ (tasks[t].is_active /\ t \in jobs) =>
                       tasks[t].next_run_at = job_next_run_time(St, t)
                /\ ~tasks[t].is_active => tasks[t].next_run_at = NoInstant

\* C15: an execution in flight of a task whose timer was cancelled by
\* remove_task or update_task (the row is still in the store) ends as any other
\* execution: whatever the executor returns and whatever the store does, its
\* TaskLog gets a terminal status, success_count + failure_count grows by one,
\* is_running is reset and the id leaves the running set.
InFlightSurvivesDeregistration ==
    \A r \in runs :
        (r.pc = "executing" /\ tasks[r.task].exists /\ r.task \notin jobs) =>
            \A result \in ExecuteResults, g \in RunTaskEndFaults :
                LET e == IF r.trigger = "scheduled"
                         THEN run_task_end(St, r.task, r.log, result, g)
                         ELSE run_task_now_end(St, r.task, r.log, result, g)
                    Counted(row) == row.success_count + row.failure_count
                IN /\ \A l \in e.logs : l.id = r.log => l.status # "running"
                   /\ Counted(e.tasks[r.task]) = Counted(tasks[r.task]) + 1
                   /\ ~e.tasks[r.task].is_running
                   /\ r.task \notin e.running

\* C16: a firing whose reload of the task finds no row or is_active = false
\* aborts without effect: no Task column, no TaskLog, no notification and no
\* timer changes, the executor is not awaited and the id is not in the running
\* set afterwards.
AbortedFiringIsNoOp ==
    \A r \in runs :
        (/\ r.trigger = "scheduled" /\ r.pc = "dispatched"
         /\ r.task \notin running_tasks
         /\ (~tasks[r.task].exists \/ ~tasks[r.task].is_active)) =>
            \A f \in { g \in RunTaskBeginFaults : g.at # "query" } :
                LET s == run_task_begin(St, r.task, f) IN
                /\ s.out = "aborted"
                /\ NoEffect(s)
                /\ s.log = 0
                /\ r.task \notin s.running

\* C16, its case: a timer fired, and before the dispatched callback started
\* the task was deactivated, while the row holds values from an earlier run.
FiringOfDeactivatedTask ==
    \E r \in runs :
        /\ r.trigger = "scheduled" /\ r.pc = "dispatched"
        /\ r.task \notin running_tasks
        /\ tasks[r.task].exists /\ ~tasks[r.task].is_active
        /\ tasks[r.task].run_count > 0

\* C17: a scheduled execution whose executor returned a result invokes the
\* notification hook exactly when the result is failed and notify_on_failure
\* is set, or the result is success and notify_on_success is set, whatever the
\* store does; a skipped or aborted firing, and the start of any firing,
\* invokes it for nothing.
NotifiedExactlyWhenConfigured ==
    \A r \in runs :
        /\ (r.trigger = "scheduled" /\ r.pc = "executing" /\ tasks[r.task].exists) =>
               \A result \in {"success", "failed"}, g \in RunTaskEndFaults :
                   LET e == run_task_end(St, r.task, r.log, result, g) IN
                   /\ (r.log \in e.notified) <=>
                          \/ (result = "failed" /\ tasks[r.task].notify_on_failure)
                          \/ (result = "success" /\ tasks[r.task].notify_on_success)
                   /\ e.notified \ {r.log} = notified
        /\ (r.trigger = "scheduled" /\ r.pc = "dispatched") =>
               \A f \in RunTaskBeginFaults :
                   run_task_begin(St, r.task, f).notified = notified

\* The error messages of a timeout.
TimeoutMessages ==
    {"Request failed: timed out", "Command timed out", "Python script timed out"}

\* A call whose payload fails: an HTTP error status, a network failure, an
\* unsupported HTTP method, a nonzero exit code, a process that cannot be
\* created, a timeout, a missing backup source, an unknown task type.
PayloadFailure(c) ==
    \/ c.task_type = UnknownTaskType
    \/ c.task_type = "http" /\ (c.method = "PATCH" \/ c.outcome \in {"bad", "error"})
    \/ c.task_type \in {"shell", "python"} /\ c.outcome \in {"bad", "error"}
    \/ c.task_type = "backup" /\ (~c.source_exists \/ c.outcome \in {"bad", "error"})
    \/ c.primary.error_message \in TimeoutMessages

\* C18: execute never raises, and for every task type a call whose payload
\* fails returns a result with status failed.
ExecuteNeverRaises ==
    /\ call.pc # "raised"
    /\ call.pc = "returned" =>
           /\ call.result.status \in {"success", "failed"}
           /\ PayloadFailure(call) => call.result.status = "failed"

\* C19: when a write of the per-task log file failed, execute does not raise
\* and returns the status and the exit_code the strategy produced.
LogFailureKeepsResult ==
    (call.log_failed /\ call.pc \in {"returned", "raised"}) =>
        /\ call.pc = "returned"
        /\ call.result.status = call.primary.status
        /\ call.result.exit_code = call.primary.exit_code

\* C20: for every task type, a call that waits for an operation that would
\* never end is ended by the timeout of its strategy, with a failed result
\* that carries a timeout message.
HangingOperationTimesOut ==
    (call.pc = "waiting" /\ call.outcome = "hang") ~>
        (/\ call.pc # "waiting"
         /\ call.primary.status = "failed"
         /\ call.primary.error_message \in TimeoutMessages)

\* C21: a shell or python process that exits gives exit_code = its exit code
\* and status success exactly when that code is 0; when the timeout expires
\* first the result is failed, exit_code -1, with a "timed out" message.
ProcessResult ==
    [][ call.task_type \in {"shell", "python"} =>
            /\ OperationEnds =>
                   /\ call'.primary.exit_code = returncode(call)
                   /\ (call'.primary.status = "success") <=> (returncode(call) = 0)
                   /\ call'.primary.status \in {"success", "failed"}
                   /\ call'.result = call'.primary
            /\ TimeoutExpires =>
                   /\ call'.primary.status = "failed"
                   /\ call'.primary.exit_code = -1
                   /\ call'.primary.error_message \in
                          {"Command timed out", "Python script timed out"}
                   /\ call'.result = call'.primary ]_vars

\* C21, its case: a shell process exited with a nonzero code.
ShellExitedNonzero ==
    /\ call.task_type = "shell" /\ call.pc = "logging" /\ ~call.handler
    /\ call.outcome = "bad" /\ call.primary.exit_code # 0
    /\ call.primary.exit_code # -1

\* C22: an HTTP call whose response was received gives exit_code = the status
\* code and status success exactly when the code is below 400; a network
\* failure or a request timeout gives failed with exit_code -1; no other HTTP
\* call ends in success.
HttpResult ==
    [][ call.task_type = "http" =>
            /\ (OperationEnds /\ call.outcome \in {"ok", "bad"}) =>
                   /\ call'.primary.exit_code = status_code(call)
                   /\ (call'.primary.status = "success") <=> (status_code(call) < 400)
                   /\ call'.primary.status \in {"success", "failed"}
            /\ ((OperationEnds /\ call.outcome = "error") \/ TimeoutExpires) =>
                   /\ call'.primary.status = "failed"
                   /\ call'.primary.exit_code = -1
            /\ (call'.primary.status = "success" /\ call.primary.status # "success") =>
                   (OperationEnds /\ call.outcome = "ok") ]_vars

\* C22, its case: an HTTP call received a response with a status of 400 or
\* more.
HttpErrorStatusReceived ==
    /\ call.task_type = "http" /\ call.pc = "logging" /\ ~call.handler
    /\ call.outcome = "bad" /\ call.primary.exit_code >= 400

\* C23: for every retention_days, 0 included, a backup run that returned a
\* success result has left the artifact it created in the destination.
NewArtifactSurvivesCleanup ==
    (call.pc = "returned" /\ call.result.status = "success") =>
        \E e \in call.entries : e.kind = "new"

\* C24: the cleanup of a successful backup run with retention_days = R removes
\* an entry of the destination exactly when it is an artifact of an earlier
\* backup whose creation time is more than R days before now; younger entries
\* and entries that are no backup artifacts are kept.
CleanupRemovesOnlyOldBackups ==
    [][ (CleanupOldBackups /\ call'.result.status = "success") =>
            \A e \in call.entries \cap PriorEntries :
                (e \notin call'.entries) <=>
                    (e.kind = "backup" /\ e.age > call.retention_days * SecondsPerDay)
      ]_vars

\* C25: a backup run that fails (missing source, failing archive command,
\* copy error, error of the retention cleanup) returns a result with status
\* failed and exit_code -1; every run that ends, ends with a result.
BackupFailureIsMinusOne ==
    call.pc = "returned" =>
        /\ call.result.status \in {"success", "failed"}
        /\ call.result.status = "failed" => call.result.exit_code = -1
        /\ call.result.status = "success" =>
               (call.source_exists /\ call.outcome = "ok" /\ call.listing)

\* C26: a backup run whose source does not exist returns failed with
\* exit_code -1 at its first step and changes nothing: the destination is not
\* created, no entry is added to it and none is removed, and the run does
\* nothing after it returned.
MissingSourceFailsFast ==
    [][ /\ (call.pc = "called" /\ ~call.source_exists) =>
               /\ call'.pc = "returned"
               /\ call'.result.status = "failed"
               /\ call'.result.exit_code = -1
               /\ call'.dest_exists = call.dest_exists
               /\ call'.entries = call.entries
        /\ call.pc = "returned" => call' = call ]_vars

\* C26, its case: a run with a missing source returned, and an entry older
\* than the cutoff is still in the destination.
MissingSourceReturned ==
    /\ call.pc = "returned" /\ ~call.source_exists
    /\ call.result.status = "failed"
    /\ \E e \in call.entries : OlderThanCutoff(call, e)

\* C27: an execution of any task type is in flight as a unit of work of its
\* own, so that the loop can dispatch firings and run the executions of other
\* tasks before it ends: an execution that returns a result was suspended at
\* the await of the executor in the state before.
ExecutionsYieldTheLoop ==
    [][ \A t \in TaskIds :
            executions'[t] > executions[t] => Executing(t) # {} ]_vars

\* C28: once shutdown has returned no firing is waiting to start, and no task
\* id is in the running set.
ShutdownLeavesNothingRunning ==
    phase = "stopped" =>
        /\ running_tasks = {}
        /\ \A r \in runs : ~(r.trigger = "scheduled" /\ r.pc = "dispatched")

\* C29: a TaskLog with a terminal status keeps every field in every later
\* step (firings, manual runs, update and remove of the task); it only leaves
\* the store with its task.
TerminalLogIsFrozen ==
    [][ \A l \in logs :
            l.status \in {"success", "failed"} =>
                \/ l \in logs'
                \/ /\ ~tasks'[l.task_id].exists
                   /\ \A m \in logs' : m.id # l.id ]_vars

\* C29, its case: a task has the terminal TaskLog of an earlier run and the
\* terminal TaskLog of a later run with the other status.
LaterRunEndedDifferently ==
    \E l \in logs, m \in logs :
        /\ l.task_id = m.task_id /\ l.id < m.id
        /\ l.status = "success" /\ m.status = "failed"

\* C30: a call of execute that has ended, with a success result, a failed
\* result or otherwise, has appended exactly one entry to the log file of
\* its task.
OneLogEntryPerExecution ==
    call.pc \in {"returned", "raised"} => call.appended = 1

\* C31: remove_task(task_id) removes the timer of that id, if there is one,
\* and nothing else: the timers of the other ids, the running set, the Task
\* rows and the TaskLog rows are unchanged; without a timer for the id it
\* changes nothing at all.
RemoveTaskFrame ==
    /\ [](\A t \in TaskIds :
              LET s == remove_task(St, t) IN
              /\ s.jobs = jobs \ {t}
              /\ s.tasks = tasks /\ s.logs = logs /\ s.log_seq = log_seq
              /\ s.running = running_tasks /\ s.notified = notified
              /\ t \notin jobs => NoEffect(s))
    /\ [][ \A t \in TaskIds :
               RemoveTask(t) =>
                   /\ jobs' = jobs \ {t}
                   /\ UNCHANGED <<tasks, logs, log_seq, running_tasks, runs,
                                  notified, executions>> ]_vars

\* C31, its case: the timer of an active task was removed while the task has
\* an execution in flight and another task keeps its timer.
TimerRemovedWhileRunning ==
    \E t \in TaskIds, u \in jobs :
        /\ tasks[t].exists /\ tasks[t].is_active /\ t \notin jobs
        /\ t \in running_tasks /\ Executing(t) # {} /\ u # t

\* C32: a timer registered with a single number in the day-of-week field
\* fires only on the day that number stands for when 0 is Sunday, 1 Monday
\* and so on to 6 Saturday.
DayOfWeekZeroIsSunday ==
    (call.pc = "registered" /\ call.day_of_week # "*") =>
        \A d \in call.fired : week_days[d] = DayOfWeekValue(call.day_of_week)

\* The state in which a run invokes the executor: the id is in the running
\* set, is_running and the incremented run_count are in the store, and so is
\* the RUNNING TaskLog the run created.
AtInvocation(s, task_id) ==
    /\ task_id \notin running_tasks /\ task_id \in s.running
    /\ s.tasks[task_id].is_running
    /\ s.tasks[task_id].run_count = tasks[task_id].run_count + 1
    /\ \E l \in s.logs \ logs :
           l.id = s.log /\ l.task_id = task_id /\ l.status = "running"

\* The state in which a run that recorded its result ends: the TaskLog is
\* terminal, one of the two counters went up, is_running is false in the
\* store, and the id, in the running set until then, has left it.
AtCompletion(s, e, task_id, log_id, result) ==
    /\ task_id \in s.running /\ task_id \notin e.running
    /\ ~e.tasks[task_id].is_running
    /\ e.tasks[task_id].success_count + e.tasks[task_id].failure_count
           = s.tasks[task_id].success_count + s.tasks[task_id].failure_count + 1
    /\ \E l \in e.logs : l.id = log_id /\ l.status = result

\* C33: the steps of one run come in a fixed order.  _run_task and
\* run_task_now invoke the executor only with the id in the running set,
\* is_running and the run_count increment stored and the RUNNING TaskLog
\* stored; a run awaiting the executor keeps all three; a run that records
\* its result leaves the running set only with the TaskLog terminal and
\* is_running false in the store.
RunStepsInOrder ==
    /\ [](\A t \in TaskIds :
            /\ \A f \in RunTaskBeginFaults :
                   LET s == run_task_begin(St, t, f) IN
                   s.out = "awaiting" =>
                       /\ AtInvocation(s, t)
                       /\ \A result \in ExecuteResults, g \in RunTaskEndFaults :
                              LET e == run_task_end(s, t, s.log, result, g) IN
                              e.out = "completed" => AtCompletion(s, e, t, s.log, result)
            /\ \A f \in RunTaskNowBeginFaults, trigger_type \in ManualTriggerTypes :
                   LET s == run_task_now_begin(St, t, trigger_type, f) IN
                   s.out = "awaiting" =>
                       /\ AtInvocation(s, t)
                       /\ \A result \in ExecuteResults, g \in RunTaskNowEndFaults :
                              LET e == run_task_now_end(s, t, s.log, result, g) IN
                              e.out = "log" => AtCompletion(s, e, t, s.log, result)
            /\ \A r \in Executing(t) :
                   /\ t \in running_tasks
                   /\ tasks[t].exists =>
                          /\ tasks[t].is_running
                          /\ \E l \in logs : l.id = r.log /\ l.task_id = t
                                             /\ l.status = "running"
                   /\ \A result \in ExecuteResults :
                          /\ \A g \in RunTaskEndFaults :
                                 LET e == run_task_end(St, t, r.log, result, g) IN
                                 e.out = "completed" => AtCompletion(St, e, t, r.log, result)
                          /\ \A g \in RunTaskNowEndFaults :
                                 LET e == run_task_now_end(St, t, r.log, result, g) IN
                                 e.out = "log" => AtCompletion(St, e, t, r.log, result))
    /\ [][ \A t \in TaskIds :
               (/\ t \in running_tasks /\ t \notin running_tasks'
                /\ tasks'[t].exists
                /\ \E l \in logs' : l.task_id = t /\ l.status # "running"
                                    /\ l \notin logs)
               => ~tasks'[t].is_running ]_vars

\* C33, its case: a run that awaited the executor has recorded its result
\* and left the running set, and the next run of the task awaits the executor.
RunCompletedInOrder ==
    \E t \in TaskIds :
        /\ Suspends(tasks[t].task_type)
        /\ tasks[t].run_count = 2 /\ executions[t] = 1
        /\ tasks[t].success_count + tasks[t].failure_count = 1
        /\ \E l \in logs : l.task_id = t /\ l.status # "running"
        /\ Executing(t) # {}

\* C34: at any time a task has at most one TaskLog with status RUNNING.
AtMostOneRunningLog ==
    \A t \in TaskIds :
        Cardinality({ l \in logs : l.task_id = t /\ l.status = "running" }) <= 1

\* The ids of the TaskLogs of a task among the given rows.
LogIdsOf(ls, task_id) == { l.id : l \in { m \in ls : m.task_id = task_id } }

\* C35: as long as no store operation has failed, the run_count of every
\* stored task is the number of TaskLogs created for it; and every step
\* without a failing store operation raises the run_count of a task by the
\* number of TaskLogs it creates for the task: the increment and the creation
\* are never apart.
RunCountMatchesLogs ==
    /\ [](faulty = 0 =>
             \A t \in TaskIds :
                 tasks[t].exists =>
                     tasks[t].run_count = Cardinality(LogIdsOf(logs, t)))
    /\ [][ faulty' = faulty =>
               \A t \in TaskIds :
                   (tasks[t].exists /\ tasks'[t].exists) =>
                       /\ LogIdsOf(logs, t) \subseteq LogIdsOf(logs', t)
                       /\ tasks'[t].run_count - tasks[t].run_count
                              = Cardinality(LogIdsOf(logs', t) \ LogIdsOf(logs, t)) ]_vars

\* C35, its case: with no failed store operation a task has had a scheduled
\* and a manual run, the second of them in flight.
TwoRunsTwoLogs ==
    \E t \in TaskIds :
        /\ faulty = 0 /\ tasks[t].run_count = 2 /\ Executing(t) # {}
        /\ \E l \in logs, m \in logs :
               /\ l.task_id = t /\ m.task_id = t
               /\ l.trigger_type = "scheduled" /\ m.trigger_type = "manual"

\* C36: add_task and update_task failing on a malformed cron expression for
\* a task whose timer is registered return False and leave the task without a
\* timer and the other timers as they were; a task without a timer is not
\* fired, and gets a timer again only as an active task with a well-formed
\* cron expression.
PreviousTimerNotRetained ==
    /\ [](\A t \in jobs, c \in CronExprs, commit_ok \in BOOLEAN :
              Malformed(c) =>
                  LET task == [tasks[t] EXCEPT !.is_active = TRUE, !.cron_expression = c]
                      a == add_task(St, t, task, commit_ok)
                      u == update_task(St, t, task, commit_ok)
                  IN /\ a.out = "False" /\ a.jobs = jobs \ {t}
                     /\ u.out = "False" /\ u.jobs = jobs \ {t})
    /\ [][ \A t \in TaskIds :
               /\ (/\ t \in jobs /\ tasks'[t].exists /\ tasks'[t].is_active
                   /\ Malformed(tasks'[t].cron_expression)
                   /\ tasks'[t].cron_expression # tasks[t].cron_expression)
                  => jobs' = jobs \ {t}
               /\ t \notin jobs =>
                      /\ \A r \in runs' \ runs : r.pc = "dispatched" => r.task # t
                      /\ t \in jobs' =>
                             /\ tasks'[t].exists /\ tasks'[t].is_active
                             /\ ~Malformed(tasks'[t].cron_expression) ]_vars

\* C36, its case: a task that ran from its timer is active with a malformed
\* cron expression and has no timer, while the other task keeps its timer.
TimerLostToMalformedUpdate ==
    \E t \in TaskIds, u \in jobs :
        /\ u # t /\ t \notin jobs
        /\ tasks[t].exists /\ tasks[t].is_active
        /\ tasks[t].run_count > 0
        /\ Malformed(tasks[t].cron_expression)

\* C37: run_task_now on a task id that is not in the store returns None and
\* changes nothing: no TaskLog, the running set, the timers and the rows as
\* they were; a run_task_now or a firing for the id after it ends as it
\* would have ended without the call.
MissingTaskIsNoOp ==
    \A t \in TaskIds, trigger_type \in ManualTriggerTypes :
        ~tasks[t].exists =>
            LET s == run_task_now_begin(St, t, trigger_type, NoFault) IN
            /\ s.out = "None" /\ s.log = 0 /\ ~s.hit
            /\ NoEffect(s)
            /\ run_task_now_begin([s EXCEPT !.out = ""], t, trigger_type, NoFault) = s
            /\ run_task_begin([s EXCEPT !.out = ""], t, NoFault)
                   = run_task_begin(St, t, NoFault)

\* C37, its case: a task id is not in the store while timers are registered,
\* TaskLogs are stored and a run is in flight.
MissingTaskWhileServing ==
    \E t \in TaskIds :
        /\ phase = "serving" /\ ~tasks[t].exists /\ t \notin running_tasks
        /\ jobs # {} /\ logs # {} /\ running_tasks # {}

\* The stored tasks that are active and have a well-formed cron expression.
Schedulable ==
    { t \in TaskIds : /\ tasks[t].exists /\ tasks[t].is_active
                      /\ ~Malformed(tasks[t].cron_expression) }

\* C38: when startup completes the registered timers are exactly those of the
\* stored tasks that are active and have a well-formed cron expression, the
\* rows before and after a malformed one included; the Task rows are as they
\* were.
StartupRegistersSchedulable ==
    /\ [](phase = "startup" =>
             \A commit_ok \in BOOLEAN :
                 RegisterAll(St, TaskIds, commit_ok).jobs = Schedulable)
    /\ [][ (phase = "startup" /\ phase' = "serving") =>
               /\ jobs' = Schedulable
               /\ tasks' = tasks ]_vars

\* C38, its case: startup is over and nothing has happened since; the first
\* task is active with a malformed cron expression and has no timer, the
\* second task has its timer.
StartedPastMalformedTask ==
    \E t \in TaskIds, u \in TaskIds :
        /\ phase = "serving" /\ runs = {} /\ logs = {}
        /\ t < u /\ jobs = {u} /\ jobs = Schedulable
        /\ tasks[t].exists /\ tasks[t].is_active
        /\ Len(tasks[t].cron_expression) # 5
        /\ \A x \in TaskIds : tasks[x].next_run_at = "None"

====
